---- MODULE Spec2Model ----
(***************************************************************************)
(* Presence and broadcast coordinator of socket-io-chat (src/server.js).   *)
(*                                                                         *)
(* The server keeps one process-wide Map, activeUsers, from socket id to a *)
(* session record, and registers one set of event handlers per socket      *)
(* inside io.on('connection').  Every handler runs to completion in the    *)
(* single Node.js event loop, so each handler is one atomic action here.   *)
(*                                                                         *)
(* Strings are sequences of one-character strings, so that trim() and      *)
(* substring() are computed and not assumed.                               *)
(***************************************************************************)
EXTENDS Integers, Sequences, FiniteSets, TLC

(***************************************************************************)
(* Bounds of the model.                                                    *)
(***************************************************************************)
NumSockets == 3      \* socket ids the transport hands out
IdLen == 7           \* length of a socket id (longer than the 6 kept by substring)
MaxEvents == 4       \* inbound events handled in one run
MaxRequests == 101   \* requests to /api/ per address and window
MaxTypingSeen == 4   \* typing events of others the client handles
MaxAdded == 1002     \* messages added to the chat since it was last cleared
MaxOutgoing == 2     \* update-username events of the client on their way
MaxEmits == 8        \* events the client emits before the user stops

DefaultPrefixLen == 6

(***************************************************************************)
(* Values.                                                                 *)
(***************************************************************************)
Undefined == <<"<undefined>">>       \* JavaScript undefined (absent argument / field)
\* The client's name before the server has given it one.
Anonymous == <<"A", "n", "o", "n", "y", "m", "o", "u", "s">>
Space == " "
Hi == <<"h", "i">>

IdChar == <<"A", "B", "C", "D", "E", "F">>

\* socket.id: an opaque unique string assigned by the transport.
SocketId(n) == [i \in 1..IdLen |-> IF i = 1 THEN IdChar[n] ELSE "x"]

Ids == {SocketId(n) : n \in 1..NumSockets}

\* socket.handshake.address: stored in the record, read by no handler.
Addresses == {"10.0.0.1"}
Reasons == {"transport close", "ping timeout"}
\* Remote addresses of HTTP clients.
RemoteIps == {"10.0.0.1", "10.0.0.2"}
Messages == {Hi, Undefined}
\* Arguments of update-username: empty, blank, plain, padded, with an inner
\* space, and absent.
NameArgs == {<<>>, <<Space>>, <<"a">>, <<Space, "a", Space>>, <<"b", Space, "b">>, Undefined}
\* Client-supplied username of send-message and typing: absent, empty, given.
Overrides == {Undefined, <<>>, <<"a">>}

(***************************************************************************)
(* JavaScript helpers used by the handlers.                                *)
(***************************************************************************)
\* JavaScript truthiness of a string-or-undefined value.
Truthy(s) == s # Undefined /\ s # <<>>

\* a || b
Or(a, b) == IF Truthy(a) THEN a ELSE b

RECURSIVE TrimStart(_)
TrimStart(s) == IF s = <<>> THEN s
                ELSE IF Head(s) = Space THEN TrimStart(Tail(s)) ELSE s

RECURSIVE TrimEnd(_)
TrimEnd(s) == IF s = <<>> THEN s
              ELSE IF s[Len(s)] = Space THEN TrimEnd(SubSeq(s, 1, Len(s) - 1)) ELSE s

\* String.prototype.trim
Trim(s) == TrimEnd(TrimStart(s))

\* s.substring(0, n)
Substring0(s, n) == SubSeq(s, 1, IF Len(s) < n THEN Len(s) ELSE n)

\* `User_${socket.id.substring(0, 6)}`
DefaultUsername(id) == <<"U", "s", "e", "r", "_">> \o Substring0(id, DefaultPrefixLen)

\* new Date().toISOString() and new Date().toLocaleTimeString(): two renderings
\* of the instant t.
IsoString(t) == <<"iso", t>>
LocaleTime(t) == <<"locale", t>>

(***************************************************************************)
(* State.                                                                  *)
(***************************************************************************)
VARIABLES
    conn,          \* transport: socket id -> "new" | "open" | "closed"
    activeUsers,   \* the registry Map, as its values in insertion order
    inbox,         \* socket id -> events delivered to that client, in order
    sent,          \* emissions of the handler that ran last, in order
    history,       \* inbound events handled so far, in order
    userLeft,      \* socket id -> number of user-left broadcasts emitted for it
    crashed,       \* an exception escaped a handler
    phase,         \* "running" | "closing" (inside io.close) | "closed" (sockets
                   \* closed) | "ioClosed" (callback of io.close run) | "exited"
    exitCode,      \* argument of process.exit, "none" while the process lives
    hits,          \* the limiter's store: remote address -> requests counted
    made,          \* remote address -> requests to /api/ made in this window
    response,      \* the response to the latest HTTP request
    isTyping,      \* client: state.isTyping
    typingTimeout, \* client: the timer of state.typingTimeout is pending
    inputValue,    \* client: elements.messageInput.value
    emitted,       \* client: the events it has emitted, in order
    indicatorActive, \* client: typingIndicator has the class 'active'
    typingText,    \* client: the name shown in typingText, "" when empty
    typingSeen,    \* client: the typing events of others it has handled
    messages,      \* client: state.messages; an entry is the number of the
                   \* message among those added since the chat was last cleared
    clientUsername, \* client: state.username
    userId,        \* client: state.userId
    connected,     \* client: state.connected
    socketId,      \* client: socket.id, Undefined while it has no connection
    handled,       \* client: events of its connection it has handled
    outgoing       \* client: update-username events emitted, not yet at the server

httpVars == <<hits, made, response>>

composeVars == <<isTyping, typingTimeout, inputValue, emitted>>
indicatorVars == <<indicatorActive, typingText, typingSeen>>
uiVars == <<composeVars, indicatorVars, messages>>
sessionVars == <<clientUsername, userId, connected, socketId, handled, outgoing>>
clientVars == <<uiVars, sessionVars>>

vars == <<conn, activeUsers, inbox, sent, history, userLeft, crashed, phase,
          exitCode, hits, made, response,
          isTyping, typingTimeout, inputValue, emitted,
          indicatorActive, typingText, typingSeen, messages,
          clientUsername, userId, connected, socketId, handled, outgoing>>

\* Date.now() / new Date(): the instant at which the next handler runs.
Now == Len(history)

\* Sockets currently in the namespace: the recipients of io.emit.
Connected(c) == {id \in Ids : c[id] = "open"}

(***************************************************************************)
(* Map operations on activeUsers.                                          *)
(***************************************************************************)
Keys(m) == {m[i].id : i \in 1..Len(m)}

Has(m, id) == id \in Keys(m)

Index(m, id) == CHOOSE i \in 1..Len(m) : m[i].id = id

Get(m, id) == m[Index(m, id)]

\* Map.prototype.set: a new key is appended, an existing key keeps its position.
MapSet(m, id, rec) == IF Has(m, id) THEN [m EXCEPT ![Index(m, id)] = rec]
                      ELSE Append(m, rec)

\* Mutant: the disconnect handler leaves the record in the Map.
DeleteKeepsAll(m, id) == m

\* Map.prototype.delete
Delete(m, id) == SelectSeq(m, LAMBDA r : r.id # id)

\* Array.from(activeUsers.values())
Values(m) == m

\* GET /api/users: the roster with the ip field left out.
ApiUsers(m) == [i \in 1..Len(m) |->
                  [id |-> m[i].id, username |-> m[i].username,
                   connectedAt |-> m[i].connectedAt, lastSeen |-> m[i].lastSeen]]

(***************************************************************************)
(* Outbound events.                                                        *)
(***************************************************************************)
\* io.emit(ev, data): to every socket in the namespace.
IoEmit(c, ev, data) == [event |-> ev, data |-> data, to |-> Connected(c)]

\* socket.emit(ev, data): to this socket only (dropped when it is closed).
SocketEmit(c, id, ev, data) == [event |-> ev, data |-> data, to |-> Connected(c) \cap {id}]

\* Mutant: io.emit used where socket.broadcast.emit is meant.
BroadcastEmitToAll(c, id, ev, data) == [event |-> ev, data |-> data, to |-> Connected(c)]

\* socket.broadcast.emit(ev, data): to every socket in the namespace but this one.
BroadcastEmit(c, id, ev, data) == [event |-> ev, data |-> data, to |-> Connected(c) \ {id}]

RECURSIVE Received(_, _)
Received(ems, id) ==
    IF ems = <<>> THEN <<>>
    ELSE (IF id \in Head(ems).to
          THEN <<[event |-> Head(ems).event, data |-> Head(ems).data]>>
          ELSE <<>>) \o Received(Tail(ems), id)

\* Mutant: what the first socket receives overtakes what it received before.
DeliverOvertaking(box, ems) ==
    [id \in Ids |-> IF id = SocketId(1) THEN Received(ems, id) \o box[id]
                    ELSE box[id] \o Received(ems, id)]

\* The transport delivers the emissions of one handler, in order.
Deliver(box, ems) == [id \in Ids |-> box[id] \o Received(ems, id)]

Count(ems, ev) == Cardinality({i \in 1..Len(ems) : ems[i].event = ev})

Entry(ev, id, arg) == [ev |-> ev, id |-> id, arg |-> arg]

(***************************************************************************)
(* Initial state: the server has started, nobody has connected.            *)
(***************************************************************************)
Init ==
    /\ conn = [id \in Ids |-> "new"]
    /\ activeUsers = <<>>
    /\ inbox = [id \in Ids |-> <<>>]
    /\ sent = <<>>
    /\ history = <<>>
    /\ userLeft = [id \in Ids |-> 0]
    /\ crashed = FALSE
    /\ phase = "running"
    /\ exitCode = "none"
    /\ hits = [ip \in RemoteIps |-> 0]
    /\ made = [ip \in RemoteIps |-> 0]
    /\ response = [status |-> 0, body |-> "none"]
    /\ isTyping = FALSE
    /\ typingTimeout = FALSE
    /\ inputValue = <<>>
    /\ emitted = <<>>
    /\ indicatorActive = FALSE
    /\ typingText = ""
    /\ typingSeen = <<>>
    /\ messages = <<>>
    /\ clientUsername = Anonymous
    /\ userId = Undefined
    /\ connected = FALSE
    /\ socketId = Undefined
    /\ handled = 0
    /\ outgoing = <<>>

Running == ~crashed /\ phase = "running" /\ Len(history) < MaxEvents

\* The handlers of a socket exist once its connection callback has run.
Registered(id) == conn[id] # "new"

\* An exception escapes the handler: nothing after the throwing line runs.
Throw(entry) ==
    /\ crashed' = TRUE
    /\ history' = Append(history, entry)
    /\ sent' = <<>>
    /\ UNCHANGED <<conn, activeUsers, inbox, userLeft, phase, exitCode>>
    /\ UNCHANGED httpVars
    /\ UNCHANGED uiVars

Finish(entry, ems) ==
    /\ history' = Append(history, entry)
    /\ sent' = ems
    /\ inbox' = Deliver(inbox, ems)
    /\ crashed' = FALSE
    /\ UNCHANGED <<phase, exitCode>>
    /\ UNCHANGED httpVars
    /\ UNCHANGED uiVars

(***************************************************************************)
(* io.on('connection'): lines 108-141.                                     *)
(***************************************************************************)
\* The transport hands out fresh ids; which one comes next is immaterial.
Issued == Cardinality({id \in Ids : conn[id] # "new"})

\* The record stored by activeUsers.set at connect.
NewUser(id, addr, t) ==
    [id |-> id, username |-> DefaultUsername(id), ip |-> addr,
     connectedAt |-> IsoString(t), lastSeen |-> IsoString(t)]

\* Mutant: the welcome count is taken before the new session is counted.
WelcomeCountsOthers(id, m, t) ==
    [message |-> "Welcome to SocketChat!", id |-> id, username |-> DefaultUsername(id),
     usersCount |-> Len(m) - 1, serverTime |-> IsoString(t), serverVersion |-> "1.0.0"]

Welcome(id, m, t) ==
    [message |-> "Welcome to SocketChat!", id |-> id, username |-> DefaultUsername(id),
     usersCount |-> Len(m), serverTime |-> IsoString(t), serverVersion |-> "1.0.0"]

\* Mutant: the welcome is emitted with io.emit.
ConnectEmitsWelcomeAll(c, m, id, t) ==
    << IoEmit(c, "welcome", Welcome(id, m, t)),
       BroadcastEmit(c, id, "user-joined",
           [id |-> id, username |-> DefaultUsername(id), time |-> LocaleTime(t)]),
       IoEmit(c, "user-count-update", Len(m)),
       IoEmit(c, "active-users-update", Values(m)) >>

\* Mutant: user-joined is emitted with io.emit.
ConnectEmitsJoinedAll(c, m, id, t) ==
    << SocketEmit(c, id, "welcome", Welcome(id, m, t)),
       IoEmit(c, "user-joined",
           [id |-> id, username |-> DefaultUsername(id), time |-> LocaleTime(t)]),
       IoEmit(c, "user-count-update", Len(m)),
       IoEmit(c, "active-users-update", Values(m)) >>

ConnectEmits(c, m, id, t) ==
    << SocketEmit(c, id, "welcome", Welcome(id, m, t)),
       BroadcastEmit(c, id, "user-joined",
           [id |-> id, username |-> DefaultUsername(id), time |-> LocaleTime(t)]),
       IoEmit(c, "user-count-update", Len(m)),
       IoEmit(c, "active-users-update", Values(m)) >>

\* The body of the connection handler.
ConnectHandler(id, addr) ==
    /\ Running
    /\ conn[id] = "new"
    /\ conn' = [conn EXCEPT ![id] = "open"]
    /\ activeUsers' = MapSet(activeUsers, id, NewUser(id, addr, Now))
    /\ Finish(Entry("connect", id, addr), ConnectEmits(conn', activeUsers', id, Now))
    /\ UNCHANGED userLeft

Connect(id, addr) ==
    /\ ConnectHandler(id, addr)
    /\ UNCHANGED sessionVars

(***************************************************************************)
(* socket.on('send-message'): lines 144-161.  data = {message, username}.  *)
(***************************************************************************)
\* activeUsers.get(socket.id) || { username: defaultUsername }, then .username
UserNameOrDefault(m, id) == IF Has(m, id) THEN Get(m, id).username ELSE DefaultUsername(id)

\* Mutant: the registry name always wins over the client-supplied one.
NewMessageRegistryName(m, id, data, t) ==
    [id |-> id, message |-> data.message, time |-> LocaleTime(t),
     timestamp |-> IsoString(t),
     username |-> UserNameOrDefault(m, id)]

NewMessage(m, id, data, t) ==
    [id |-> id, message |-> data.message, time |-> LocaleTime(t),
     timestamp |-> IsoString(t),
     username |-> Or(data.username, UserNameOrDefault(m, id))]

\* Mutant: a message refreshes lastSeen of every record.
TouchLastSeenOfAll(m, id, t) ==
    IF Has(m, id) THEN [i \in 1..Len(m) |-> [m[i] EXCEPT !.lastSeen = IsoString(t)]] ELSE m

\* activeUsers.get(socket.id).lastSeen = ..., guarded by activeUsers.has
TouchLastSeen(m, id, t) ==
    IF Has(m, id) THEN [m EXCEPT ![Index(m, id)].lastSeen = IsoString(t)] ELSE m

\* Mutant: the message is broadcast to the other sockets only.
SendMessageEmitsToOthers(c, m, id, data, t) ==
    << BroadcastEmit(c, id, "new-message", NewMessage(m, id, data, t)) >>

SendMessageEmits(c, m, id, data, t) ==
    << IoEmit(c, "new-message", NewMessage(m, id, data, t)) >>

SendMessage(id, data) ==
    /\ Running
    /\ Registered(id)
    /\ UNCHANGED sessionVars
    /\ IF data.message = Undefined
       THEN Throw(Entry("send-message", id, data))     \* data.message.substring
       ELSE /\ activeUsers' = TouchLastSeen(activeUsers, id, Now)
            /\ Finish(Entry("send-message", id, data),
                      SendMessageEmits(conn, activeUsers, id, data, Now))
            /\ UNCHANGED <<conn, userLeft>>

(***************************************************************************)
(* socket.on('typing') and socket.on('stop-typing'): lines 164-176.        *)
(***************************************************************************)
\* username || user?.username || defaultUsername
DisplayName(m, id, username) == Or(username, UserNameOrDefault(m, id))

TypingEmits(c, m, id, username) ==
    << BroadcastEmit(c, id, "user-typing",
           [id |-> id, username |-> DisplayName(m, id, username)]) >>

StopTypingEmits(c, id) == << BroadcastEmit(c, id, "user-stop-typing", id) >>

Typing(id, username) ==
    /\ Running
    /\ Registered(id)
    /\ UNCHANGED sessionVars
    /\ Finish(Entry("typing", id, username), TypingEmits(conn, activeUsers, id, username))
    /\ UNCHANGED <<conn, activeUsers, userLeft>>

StopTyping(id) ==
    /\ Running
    /\ Registered(id)
    /\ UNCHANGED sessionVars
    /\ Finish(Entry("stop-typing", id, Undefined), StopTypingEmits(conn, id))
    /\ UNCHANGED <<conn, activeUsers, userLeft>>

(***************************************************************************)
(* socket.on('update-username'): lines 179-201.                            *)
(***************************************************************************)
\* Mutant: the trimmed name is stored without the fallback.
SanitizeNoFallback(id, newUsername) == Trim(newUsername)

\* newUsername.trim() || defaultUsername
Sanitize(id, newUsername) == Or(Trim(newUsername), DefaultUsername(id))

\* Mutant: the name is stored with Map.set, which creates a missing record.
SetUsernameUpsert(m, id, name) ==
    IF Has(m, id) THEN [m EXCEPT ![Index(m, id)].username = name]
    ELSE Append(m, [id |-> id, username |-> name, ip |-> Undefined,
                    connectedAt |-> Undefined, lastSeen |-> Undefined])

SetUsername(m, id, name) ==
    IF Has(m, id) THEN [m EXCEPT ![Index(m, id)].username = name] ELSE m

\* Mutant: the acknowledgment is emitted with io.emit.
UpdateUsernameEmitsAckAll(c, m, id, old, new, t) ==
    << IoEmit(c, "username-changed",
           [id |-> id, oldUsername |-> old, newUsername |-> new, time |-> LocaleTime(t)]),
       IoEmit(c, "active-users-update", Values(m)),
       IoEmit(c, "username-updated", [success |-> TRUE, newUsername |-> new]) >>

\* Mutant: the roster is not re-broadcast after a rename.
UpdateUsernameEmitsNoRoster(c, m, id, old, new, t) ==
    << IoEmit(c, "username-changed",
           [id |-> id, oldUsername |-> old, newUsername |-> new, time |-> LocaleTime(t)]),
       SocketEmit(c, id, "username-updated", [success |-> TRUE, newUsername |-> new]) >>

UpdateUsernameEmits(c, m, id, old, new, t) ==
    << IoEmit(c, "username-changed",
           [id |-> id, oldUsername |-> old, newUsername |-> new, time |-> LocaleTime(t)]),
       IoEmit(c, "active-users-update", Values(m)),
       SocketEmit(c, id, "username-updated", [success |-> TRUE, newUsername |-> new]) >>

\* The body of the update-username handler.
UpdateUsernameHandler(id, newUsername) ==
    /\ Running
    /\ Registered(id)
    /\ IF newUsername = Undefined
       THEN Throw(Entry("update-username", id, newUsername))     \* newUsername.trim
       ELSE /\ activeUsers' = SetUsername(activeUsers, id, Sanitize(id, newUsername))
            /\ Finish(Entry("update-username", id, newUsername),
                      UpdateUsernameEmits(conn, activeUsers', id,
                          UserNameOrDefault(activeUsers, id),
                          Sanitize(id, newUsername), Now))
            /\ UNCHANGED <<conn, userLeft>>

UpdateUsername(id, newUsername) ==
    /\ UpdateUsernameHandler(id, newUsername)
    /\ UNCHANGED sessionVars

(***************************************************************************)
(* socket.on('ping'): lines 204-206.  socket.on('error'): lines 228-230.   *)
(***************************************************************************)
\* Mutant: the pong is emitted with io.emit.
PingEmitsToAll(c, id, t) == << IoEmit(c, "pong", [timestamp |-> t]) >>

PingEmits(c, id, t) == << SocketEmit(c, id, "pong", [timestamp |-> t]) >>

Ping(id) ==
    /\ Running
    /\ Registered(id)
    /\ UNCHANGED sessionVars
    /\ Finish(Entry("ping", id, Undefined), PingEmits(conn, id, Now))
    /\ UNCHANGED <<conn, activeUsers, userLeft>>

SocketError(id) ==
    /\ Running
    /\ Registered(id)
    /\ UNCHANGED sessionVars
    /\ Finish(Entry("error", id, Undefined), <<>>)
    /\ UNCHANGED <<conn, activeUsers, userLeft>>

(***************************************************************************)
(* socket.on('disconnect'): lines 209-225.  The transport has already      *)
(* taken the socket out of the namespace when the handler runs.            *)
(***************************************************************************)
\* Mutant: user-left is sent whether or not a record existed.
DisconnectEmitsAlwaysLeft(c, m, id, hadUser, name, reason) ==
    << IoEmit(c, "user-left", [id |-> id, username |-> name, reason |-> reason]),
       IoEmit(c, "user-count-update", Len(m)),
       IoEmit(c, "active-users-update", Values(m)) >>

\* Mutant: user-left carries the default name instead of the registry name.
DisconnectEmitsDefaultName(c, m, id, hadUser, name, reason) ==
    (IF hadUser
     THEN << IoEmit(c, "user-left",
                 [id |-> id, username |-> DefaultUsername(id), reason |-> reason]) >>
     ELSE <<>>)
    \o << IoEmit(c, "user-count-update", Len(m)),
          IoEmit(c, "active-users-update", Values(m)) >>

DisconnectEmits(c, m, id, hadUser, name, reason) ==
    (IF hadUser
     THEN << IoEmit(c, "user-left", [id |-> id, username |-> name, reason |-> reason]) >>
     ELSE <<>>)
    \o << IoEmit(c, "user-count-update", Len(m)),
          IoEmit(c, "active-users-update", Values(m)) >>

\* The body of the disconnect handler.
DisconnectHandler(id, reason) ==
    /\ conn' = [conn EXCEPT ![id] = "closed"]
    /\ activeUsers' = Delete(activeUsers, id)
    /\ Finish(Entry("disconnect", id, reason),
              DisconnectEmits(conn', activeUsers', id, Has(activeUsers, id),
                              UserNameOrDefault(activeUsers, id), reason))
    /\ userLeft' = [userLeft EXCEPT ![id] = @ + Count(sent', "user-left")]

Disconnect(id, reason) ==
    /\ Running
    /\ Registered(id)
    /\ UNCHANGED sessionVars
    /\ DisconnectHandler(id, reason)

(***************************************************************************)
(* The server.                                                             *)
(***************************************************************************)
Next ==
    \/ \E n \in 1..NumSockets, addr \in Addresses :
           n = Issued + 1 /\ Connect(SocketId(n), addr)
    \/ \E id \in Ids, m \in Messages, u \in Overrides :
           SendMessage(id, [message |-> m, username |-> u])
    \/ \E id \in Ids, u \in Overrides : Typing(id, u)
    \/ \E id \in Ids : StopTyping(id)
    \/ \E id \in Ids, n \in NameArgs : UpdateUsername(id, n)
    \/ \E id \in Ids : Ping(id)
    \/ \E id \in Ids : SocketError(id)
    \/ \E id \in Ids, r \in Reasons : Disconnect(id, r)

Spec == Init /\ [][Next]_vars

(***************************************************************************)
(* gracefulShutdown: lines 243-271.  The signal handler announces the      *)
(* shutdown and calls io.close, which closes every connected socket in     *)
(* turn; each closed socket runs its disconnect handler.  All of it is     *)
(* synchronous, so no client event is handled in between.                  *)
(***************************************************************************)
Signals == {"SIGTERM", "SIGINT"}

\* Reason given to the disconnect handlers of the sockets io.close closes.
ShutdownReason == "server shutting down"

\* Mutant: the shutdown is not announced.
ShutdownEmitsNothing(c, t) == <<>>

ShutdownEmits(c, t) ==
    << IoEmit(c, "server-shutdown",
           [message |-> "Server is restarting. Please reconnect in a moment.",
            timestamp |-> IsoString(t)]) >>

Shutdown(sig) ==
    /\ ~crashed
    /\ phase = "running"
    /\ phase' = "closing"
    /\ history' = Append(history, Entry("shutdown", Undefined, sig))
    /\ sent' = ShutdownEmits(conn, Now)
    /\ inbox' = Deliver(inbox, sent')
    /\ UNCHANGED <<conn, activeUsers, userLeft, crashed, exitCode>>
    /\ UNCHANGED httpVars
    /\ UNCHANGED clientVars

\* The connected socket that io.close reaches next: the one connected first.
FirstConnected(c) ==
    SocketId(CHOOSE n \in 1..NumSockets :
                 /\ c[SocketId(n)] = "open"
                 /\ \A k \in 1..(n - 1) : c[SocketId(k)] # "open")

CloseSocket ==
    /\ phase = "closing"
    /\ Connected(conn) # {}
    /\ DisconnectHandler(FirstConnected(conn), ShutdownReason)
    /\ UNCHANGED sessionVars

CloseDone ==
    /\ phase = "closing"
    /\ Connected(conn) = {}
    /\ phase' = "closed"
    /\ UNCHANGED <<conn, activeUsers, inbox, sent, history, userLeft, crashed, exitCode>>
    /\ UNCHANGED httpVars
    /\ UNCHANGED clientVars

\* The server with the shutdown signal.  Typing, stop-typing, ping and error
\* events are left out: they touch neither the registry nor the connections.
NextWithShutdown ==
    \/ \E n \in 1..NumSockets, addr \in Addresses :
           n = Issued + 1 /\ Connect(SocketId(n), addr)
    \/ \E id \in Ids, m \in Messages, u \in Overrides :
           SendMessage(id, [message |-> m, username |-> u])
    \/ \E id \in Ids, n \in NameArgs : UpdateUsername(id, n)
    \/ \E id \in Ids, r \in Reasons : Disconnect(id, r)
    \/ \E sig \in Signals : Shutdown(sig)
    \/ CloseSocket
    \/ CloseDone

SpecShutdown == Init /\ [][NextWithShutdown]_vars

(***************************************************************************)
(* The end of gracefulShutdown: lines 253-266.  The callback given to      *)
(* io.close calls server.close and only then arms the 5 s timer.           *)
(***************************************************************************)
serverVars == <<conn, activeUsers, inbox, sent, history, userLeft, crashed>>

\* socket.io runs the callback of io.close, once its HTTP server has closed.
IoClosed ==
    /\ phase = "closed"
    /\ phase' = "ioClosed"
    /\ UNCHANGED <<serverVars, exitCode, httpVars, clientVars>>

\* The callback of server.close: process.exit(0).
HttpClosed ==
    /\ phase = "ioClosed"
    /\ phase' = "exited"
    /\ exitCode' = 0
    /\ UNCHANGED <<serverVars, httpVars, clientVars>>

\* The timer armed in the callback of io.close fires: process.exit(1).
ForceExit ==
    /\ phase = "ioClosed"
    /\ phase' = "exited"
    /\ exitCode' = 1
    /\ UNCHANGED <<serverVars, httpVars, clientVars>>

NextExit ==
    \/ NextWithShutdown
    \/ IoClosed
    \/ HttpClosed
    \/ ForceExit

\* What the process does by itself is fair: closing the sockets, and the
\* timer once it is armed.  That socket.io or the HTTP server finish closing
\* depends on the open connections and is not.
SpecExit ==
    /\ Init
    /\ [][NextExit]_vars
    /\ WF_vars(CloseSocket)
    /\ WF_vars(CloseDone)
    /\ WF_vars(ForceExit)

(***************************************************************************)
(* The client: typing notifications (lines 454-472, 526-548, 563-581).     *)
(***************************************************************************)
backendVars == <<serverVars, phase, exitCode, httpVars>>
exceptCompose == <<backendVars, indicatorVars, messages, sessionVars>>
exceptIndicator == <<backendVars, composeVars, messages, sessionVars>>
exceptMessages == <<backendVars, composeVars, indicatorVars, sessionVars>>
exceptSession == <<backendVars, uiVars>>

\* What the user may have in the message field after an edit.
InputValues == {<<>>, <<Space>>, <<"h">>, <<"h", Space>>}

\* Mutant: stop-typing is emitted whatever the flag says.
StopTypingAlways(flag) == <<"stop-typing">>

\* if (state.isTyping) socket.emit('stop-typing')
StopTypingIfTyping(flag) == IF flag THEN <<"stop-typing">> ELSE <<>>

\* The 'input' listener of the message field.
Input(value) ==
    /\ Len(emitted) < MaxEmits
    /\ inputValue' = value
    /\ IF Len(value) > 0 /\ ~isTyping
       THEN emitted' = Append(emitted, "typing") /\ isTyping' = TRUE
       ELSE UNCHANGED <<emitted, isTyping>>
    /\ typingTimeout' = TRUE
    /\ UNCHANGED exceptCompose

\* The callback of the 1500 ms timer.
TypingTimeoutFires ==
    /\ typingTimeout
    /\ typingTimeout' = FALSE
    /\ emitted' = emitted \o StopTypingIfTyping(isTyping)
    /\ isTyping' = FALSE
    /\ UNCHANGED <<inputValue, exceptCompose>>

\* keydown of Escape.
Escape ==
    /\ inputValue' = <<>>
    /\ emitted' = emitted \o StopTypingIfTyping(isTyping)
    /\ isTyping' = FALSE
    /\ UNCHANGED <<typingTimeout, exceptCompose>>

\* blur of the window.
Blur ==
    /\ emitted' = emitted \o StopTypingIfTyping(isTyping)
    /\ isTyping' = FALSE
    /\ UNCHANGED <<inputValue, typingTimeout, exceptCompose>>

\* ui.sendMessage: Enter or the send button.
UiSendMessage ==
    /\ Len(emitted) < MaxEmits
    /\ IF Trim(inputValue) = <<>>
       THEN UNCHANGED <<inputValue, emitted, isTyping>>
       ELSE /\ inputValue' = <<>>
            /\ emitted' = Append(emitted, "send-message") \o StopTypingIfTyping(isTyping)
            /\ isTyping' = FALSE
    /\ UNCHANGED <<typingTimeout, exceptCompose>>

NextTyping ==
    \/ \E value \in InputValues : Input(value)
    \/ TypingTimeoutFires
    \/ Escape
    \/ Blur
    \/ UiSendMessage

\* A pending timer fires.
SpecTyping == Init /\ [][NextTyping]_vars /\ WF_vars(TypingTimeoutFires)

(***************************************************************************)
(* The client: the typing indicator (lines 721-729, 835-843, 892-897).     *)
(***************************************************************************)
\* The client's own user and the other users.
Me == "me"
Others == {"B", "C", "D"}

ShowTypingIndicator(username) ==
    /\ indicatorActive' = TRUE
    /\ typingText' = username

HideTypingIndicator ==
    /\ indicatorActive' = FALSE
    /\ typingText' = ""

\* The others who have sent typing and no stop-typing since.
RECURSIVE TypingUsers(_)
TypingUsers(seen) ==
    IF seen = <<>> THEN {}
    ELSE LET e == seen[Len(seen)]
             before == TypingUsers(SubSeq(seen, 1, Len(seen) - 1))
         IN IF e.event = "user-typing" THEN before \cup {e.id} ELSE before \ {e.id}

\* socket.on('user-typing'): u starts typing, the server relays it.
OnUserTyping(u) ==
    /\ Len(typingSeen) < MaxTypingSeen
    /\ u \notin TypingUsers(typingSeen)
    /\ typingSeen' = Append(typingSeen, [event |-> "user-typing", id |-> u])
    /\ IF u # Me THEN ShowTypingIndicator(u)
       ELSE UNCHANGED <<indicatorActive, typingText>>
    /\ UNCHANGED exceptIndicator

\* socket.on('user-stop-typing'): u stops typing, the server relays it.
OnUserStopTyping(u) ==
    /\ u \in TypingUsers(typingSeen)
    /\ typingSeen' = Append(typingSeen, [event |-> "user-stop-typing", id |-> u])
    /\ HideTypingIndicator
    /\ UNCHANGED exceptIndicator

\* The 3 s interval.
AutoClear ==
    /\ indicatorActive
    /\ HideTypingIndicator
    /\ UNCHANGED <<typingSeen, exceptIndicator>>

NextIndicator ==
    \/ \E u \in Others : OnUserTyping(u)
    \/ \E u \in Others : OnUserStopTyping(u)
    \/ AutoClear

SpecIndicator == Init /\ [][NextIndicator]_vars

(***************************************************************************)
(* The client: the stored messages (lines 484-491, 661-711).               *)
(***************************************************************************)
\* The limit of state.messages.
MessageLimit == 1000

\* The message that arrives after the stored ones.
NextMessage(stored) == IF stored = <<>> THEN 1 ELSE stored[Len(stored)] + 1

\* Mutant: the list is not limited.
AddMessageUnlimited(stored, data) == Append(stored, data)

\* ui.addMessage: push, then shift when the list is longer than the limit.
AddMessage(stored, data) ==
    LET pushed == Append(stored, data) IN
    IF Len(pushed) > MessageLimit THEN Tail(pushed) ELSE pushed

\* socket.on('new-message'): a chat message.
OnNewMessage ==
    /\ NextMessage(messages) <= MaxAdded
    /\ messages' = AddMessage(messages, NextMessage(messages))
    /\ UNCHANGED exceptMessages

\* ui.showSystemMessage: a system message.
ShowSystemMessage ==
    /\ NextMessage(messages) <= MaxAdded
    /\ messages' = AddMessage(messages, NextMessage(messages))
    /\ UNCHANGED exceptMessages

\* The clear button, confirmed: the list is emptied and 'Chat cleared' added.
ClearChat ==
    /\ messages' = AddMessage(<<>>, NextMessage(<<>>))
    /\ UNCHANGED exceptMessages

NextMessages ==
    \/ OnNewMessage
    \/ ShowSystemMessage
    \/ ClearChat

SpecMessages == Init /\ [][NextMessages]_vars

(***************************************************************************)
(* The client and the server together: the client's own name (lines        *)
(* 493-508, 739-762, 796-811, 845-865).  The client has one connection at  *)
(* a time; the other connections are other users'.                         *)
(***************************************************************************)
\* What the user may type into the username field, and what others send.
UsernameInputs == {<<>>, <<Space, "b">>}
OtherNames == {<<"c">>}

\* Mutant: username-changed is applied whoever it is about.
UsernameAfterAnyId(name, uid, e) ==
    IF e.event = "welcome" THEN Or(e.data.username, Anonymous)
    ELSE IF e.event \in {"username-changed", "username-updated"}
         THEN Or(e.data.newUsername, name)
    ELSE name

\* state.username after the handler of the received event e has run.
UsernameAfter(name, uid, e) ==
    IF e.event = "welcome" THEN Or(e.data.username, Anonymous)
    ELSE IF e.event = "username-changed"
         THEN (IF e.data.id = uid THEN Or(e.data.newUsername, name) ELSE name)
    ELSE IF e.event = "username-updated"
         THEN (IF e.data.success THEN Or(e.data.newUsername, name) ELSE name)
    ELSE name

\* The client connects or reconnects: the server runs its connection handler.
SessionConnect(addr) ==
    /\ socketId = Undefined
    /\ Issued < NumSockets
    /\ ConnectHandler(SocketId(Issued + 1), addr)
    /\ socketId' = SocketId(Issued + 1)
    /\ handled' = 0
    /\ UNCHANGED <<clientUsername, userId, connected, outgoing>>

\* Another user connects.
OtherConnect(addr) ==
    /\ Issued < NumSockets
    /\ Connect(SocketId(Issued + 1), addr)

\* Another user changes their name.
OtherUpdateUsername(id, name) ==
    /\ id # socketId
    /\ conn[id] = "open"
    /\ UpdateUsername(id, name)

\* The transport closes an open connection: the client's or another user's.
TransportCloses(id, reason) ==
    /\ conn[id] = "open"
    /\ Disconnect(id, reason)

\* socket.on('connect')
OnConnect ==
    /\ socketId # Undefined
    /\ ~connected
    /\ connected' = TRUE
    /\ userId' = socketId
    /\ UNCHANGED <<clientUsername, socketId, handled, outgoing, exceptSession>>

\* The client handles the next event the server has sent to its connection.
OnEvent ==
    /\ connected
    /\ socketId # Undefined
    /\ handled < Len(inbox[socketId])
    /\ clientUsername' = UsernameAfter(clientUsername, userId, inbox[socketId][handled + 1])
    /\ handled' = handled + 1
    /\ UNCHANGED <<userId, connected, socketId, outgoing, exceptSession>>

\* 'change' or Enter in the username field: emitted only for a new name.
ChangeUsername(value) ==
    /\ Len(outgoing) < MaxOutgoing
    /\ Or(Trim(value), Anonymous) # clientUsername
    /\ outgoing' = Append(outgoing, Or(Trim(value), Anonymous))
    /\ UNCHANGED <<clientUsername, userId, connected, socketId, handled, exceptSession>>

\* The server handles the client's next update-username.
ServerGetsUpdate ==
    /\ socketId # Undefined
    /\ outgoing # <<>>
    /\ conn[socketId] = "open"
    /\ UpdateUsernameHandler(socketId, Head(outgoing))
    /\ outgoing' = Tail(outgoing)
    /\ UNCHANGED <<clientUsername, userId, connected, socketId, handled>>

\* socket.on('disconnect'), after the server has closed the connection.
OnDisconnect ==
    /\ socketId # Undefined
    /\ conn[socketId] = "closed"
    /\ connected' = FALSE
    /\ socketId' = Undefined
    /\ UNCHANGED <<clientUsername, userId, handled, outgoing, exceptSession>>

NextSession ==
    \/ \E addr \in Addresses : SessionConnect(addr)
    \/ \E addr \in Addresses : OtherConnect(addr)
    \/ \E id \in Ids, name \in OtherNames : OtherUpdateUsername(id, name)
    \/ \E id \in Ids : TransportCloses(id, "transport close")
    \/ OnConnect
    \/ OnEvent
    \/ \E value \in UsernameInputs : ChangeUsername(value)
    \/ ServerGetsUpdate
    \/ OnDisconnect

SpecSession == Init /\ [][NextSession]_vars

(***************************************************************************)
(* The HTTP side: Express runs the layers of the application in the order  *)
(* of their registration, until one of them ends the response.             *)
(***************************************************************************)
\* max of the limiter.
RateLimitMax == 100

\* Paths as their segments.
Root == <<>>
Health == <<"health">>
ApiUsersPath == <<"api", "users">>
ApiStatusPath == <<"api", "status">>
Paths == {Root, Health, ApiUsersPath, ApiStatusPath, <<"api", "other">>}
Accepts == {"html", "json"}

Layer(kind, path) == [kind |-> kind, path |-> path]

\* app.use / app.get calls of the file, in the order they are executed.
Stack ==
    << Layer("middleware", Root),        \* cors
       Layer("middleware", Root),        \* security headers
       Layer("middleware", Root),        \* express.static
       Layer("middleware", Root),        \* express.json
       Layer("middleware", Root),        \* express.urlencoded
       Layer("route", Root),
       Layer("route", Health),
       Layer("route", ApiUsersPath),
       Layer("route", ApiStatusPath),
       Layer("notFound", Root),          \* app.use('*')
       Layer("middleware", Root),        \* compression
       Layer("limiter", <<"api">>) >>    \* app.use('/api/', limiter)

IsPrefix(p, q) == Len(p) <= Len(q) /\ SubSeq(q, 1, Len(p)) = p

\* app.get matches the whole path, app.use a prefix of it.
Matches(layer, path) ==
    IF layer.kind = "route" THEN layer.path = path ELSE IsPrefix(layer.path, path)

UnderApi(path) == IsPrefix(<<"api">>, path)

NotFound(accepts) ==
    IF accepts = "html" THEN [status |-> 200, body |-> "index.html"]
    ELSE [status |-> 404, body |-> "Not found"]

RouteResponse(path) ==
    IF path = Root THEN [status |-> 200, body |-> "index.html"]
    ELSE IF path = Health THEN [status |-> 200, body |-> "health"]
    ELSE IF path = ApiUsersPath THEN [status |-> 200, body |-> "users"]
    ELSE [status |-> 200, body |-> "status"]

TooManyRequests == [status |-> 429, body |-> "Too many requests from this IP"]

\* The layers from the i-th on handle the request; h is the limiter's store.
RECURSIVE Handle(_, _, _)
Handle(i, req, h) ==
    IF i > Len(Stack) THEN [res |-> NotFound("none"), hits |-> h]
    ELSE IF ~Matches(Stack[i], req.path) THEN Handle(i + 1, req, h)
    ELSE IF Stack[i].kind = "route"
         THEN [res |-> RouteResponse(req.path), hits |-> h]
    ELSE IF Stack[i].kind = "notFound"
         THEN [res |-> NotFound(req.accepts), hits |-> h]
    ELSE IF Stack[i].kind = "limiter"
         THEN LET counted == [h EXCEPT ![req.ip] = @ + 1] IN
              IF counted[req.ip] > RateLimitMax
              THEN [res |-> TooManyRequests, hits |-> counted]
              ELSE Handle(i + 1, req, counted)
    ELSE Handle(i + 1, req, h)

\* A GET request.
Request(ip, path, accepts) ==
    /\ ~crashed
    /\ made[ip] < MaxRequests
    /\ LET r == Handle(1, [ip |-> ip, path |-> path, accepts |-> accepts], hits) IN
          /\ hits' = r.hits
          /\ response' = r.res
    /\ made' = [made EXCEPT ![ip] = IF UnderApi(path) THEN @ + 1 ELSE @]
    /\ UNCHANGED <<conn, activeUsers, inbox, sent, history, userLeft, crashed, phase,
                   exitCode>>
    /\ UNCHANGED clientVars

\* windowMs has passed: the limiter's store starts again.
WindowExpires ==
    /\ \E ip \in RemoteIps : made[ip] > 0
    /\ hits' = [ip \in RemoteIps |-> 0]
    /\ made' = [ip \in RemoteIps |-> 0]
    /\ UNCHANGED <<conn, activeUsers, inbox, sent, history, userLeft, crashed, phase,
                   exitCode, response>>
    /\ UNCHANGED clientVars

NextHttp ==
    \/ \E ip \in RemoteIps, path \in Paths, accepts \in Accepts :
           Request(ip, path, accepts)
    \/ WindowExpires

SpecHttp == Init /\ [][NextHttp]_vars

(***************************************************************************)
(* Vocabulary of the properties.                                           *)
(***************************************************************************)
Handled == Len(history) > 0

\* The inbound event handled last.
Last == history[Len(history)]

A == SocketId(1)
B == SocketId(2)

Open == Connected(conn)

RosterIds(r) == {r[i].id : i \in 1..Len(r)}

\* The roster as the sequence of (id, username) pairs.
RosterNames(r) == [i \in 1..Len(r) |-> <<r[i].id, r[i].username>>]

HasEvent(box, ev) == \E i \in 1..Len(box) : box[i].event = ev

\* Payload of the most recent event named ev in an inbox.
LastData(box, ev) ==
    box[CHOOSE i \in 1..Len(box) :
            /\ box[i].event = ev
            /\ \A j \in (i + 1)..Len(box) : box[j].event # ev].data

LastReceived(id) == inbox[id][Len(inbox[id])]

\* Number of entries of h that are event ev of socket x.
Occurrences(h, ev, x) == Cardinality({i \in 1..Len(h) : h[i].ev = ev /\ h[i].id = x})

(***************************************************************************)
(* C1: in every reachable state the registry has exactly one entry per     *)
(* open connection: its size is the number of open connections and an id   *)
(* is a key of the registry iff its connection is open.                    *)
(***************************************************************************)
RegistryMatchesOpenConnections ==
    /\ Len(activeUsers) = Cardinality(Open)
    /\ \A id \in Ids : Has(activeUsers, id) <=> conn[id] = "open"

\* Two connections are open and a third has been closed.
RegistryAfterConnectsAndDisconnect ==
    /\ Cardinality(Open) = 2
    /\ \E id \in Ids : conn[id] = "closed"
    /\ Len(activeUsers) = 2

(***************************************************************************)
(* C2: every connected client's latest user-count-update equals the size   *)
(* of the registry, and its latest active-users-update lists exactly the   *)
(* registry's ids, each with its current registry username.                *)
(***************************************************************************)
ClientRosterConsistent ==
    \A id \in Open :
        /\ HasEvent(inbox[id], "user-count-update")
        /\ LastData(inbox[id], "user-count-update") = Len(activeUsers)
        /\ HasEvent(inbox[id], "active-users-update")
        /\ RosterNames(LastData(inbox[id], "active-users-update")) = RosterNames(activeUsers)

\* A session is connected and has just been renamed, after another one left.
RosterAfterRenameAndLeave ==
    /\ \E id \in Ids : conn[id] = "closed"
    /\ Cardinality(Open) >= 1
    /\ \E id \in Open : Get(activeUsers, id).username = <<"a">>
    /\ Handled /\ Last.ev = "update-username"

(***************************************************************************)
(* C3: a send-message from X (with a message text) produces exactly one    *)
(* new-message broadcast, delivered to every session connected at that     *)
(* moment, X included, carrying X's id and the message text verbatim.      *)
(***************************************************************************)
SendMessageBroadcastsOnce ==
    (Handled /\ ~crashed /\ Last.ev = "send-message") =>
        /\ Len(sent) = 1
        /\ sent[1].event = "new-message"
        /\ sent[1].to = Open
        /\ sent[1].data.id = Last.id
        /\ sent[1].data.message = Last.arg.message
        /\ \A id \in Open :
              /\ Len(inbox[id]) > 0
              /\ LastReceived(id).event = "new-message"
              /\ LastReceived(id).data.id = Last.id
              /\ LastReceived(id).data.message = Last.arg.message

\* A connected session has just sent "hi" while another session is connected.
MessageSentAmongTwo ==
    /\ Handled /\ ~crashed /\ Last.ev = "send-message"
    /\ Last.id \in Open
    /\ Cardinality(Open) >= 2
    /\ LastReceived(Last.id).data.message = Hi

(***************************************************************************)
(* C4: a typing event of X yields one user-typing event carrying X's id,   *)
(* delivered to every other connected session and never to X; likewise     *)
(* stop-typing and user-stop-typing.                                       *)
(***************************************************************************)
TypingExcludesSender ==
    /\ \A id \in Ids : \A i \in 1..Len(inbox[id]) :
          /\ inbox[id][i].event = "user-typing" => inbox[id][i].data.id # id
          /\ inbox[id][i].event = "user-stop-typing" => inbox[id][i].data # id
    /\ (Handled /\ Last.ev = "typing") =>
          /\ Len(sent) = 1
          /\ sent[1].event = "user-typing"
          /\ sent[1].data.id = Last.id
          /\ sent[1].to = Open \ {Last.id}
          /\ \A id \in Open \ {Last.id} :
                LastReceived(id) = [event |-> "user-typing", data |-> sent[1].data]
    /\ (Handled /\ Last.ev = "stop-typing") =>
          /\ Len(sent) = 1
          /\ sent[1].event = "user-stop-typing"
          /\ sent[1].data = Last.id
          /\ sent[1].to = Open \ {Last.id}
          /\ \A id \in Open \ {Last.id} :
                LastReceived(id) = [event |-> "user-stop-typing", data |-> Last.id]

\* A connected session has just sent typing while two others are connected.
TypingAmongThree ==
    /\ Handled /\ Last.ev = "typing"
    /\ Last.id \in Open
    /\ Cardinality(Open) = 3
    /\ \A id \in Open \ {Last.id} : LastReceived(id).event = "user-typing"

(***************************************************************************)
(* C5: disconnecting X removes X from every roster snapshot produced       *)
(* afterwards (active-users-update, /api/users) and triggers exactly one   *)
(* user-left broadcast, to the remaining sessions, whose username is X's   *)
(* last known registry username: the name set by X's latest                *)
(* update-username, or the default name if there was none.                 *)
(***************************************************************************)
Earlier == SubSeq(history, 1, Len(history) - 1)

RECURSIVE LastKnownName(_, _)
LastKnownName(h, x) ==
    IF h = <<>> THEN DefaultUsername(x)
    ELSE IF h[Len(h)].ev = "update-username" /\ h[Len(h)].id = x
         THEN Sanitize(x, h[Len(h)].arg)
         ELSE LastKnownName(SubSeq(h, 1, Len(h) - 1), x)

DisconnectAnnouncedOnce ==
    /\ \A x \in Ids :
          /\ userLeft[x] = (IF conn[x] = "closed" THEN 1 ELSE 0)
          /\ conn[x] = "closed" =>
                /\ x \notin RosterIds(ApiUsers(activeUsers))
                /\ \A i \in 1..Len(sent) :
                      sent[i].event = "active-users-update" => x \notin RosterIds(sent[i].data)
    /\ (Handled /\ Last.ev = "disconnect" /\ Occurrences(Earlier, "disconnect", Last.id) = 0) =>
          /\ Count(sent, "user-left") = 1
          /\ sent[1].event = "user-left"
          /\ sent[1].data.id = Last.id
          /\ sent[1].data.username = LastKnownName(Earlier, Last.id)
          /\ sent[1].to = Open
          /\ Last.id \notin sent[1].to

\* A renamed session has just disconnected while another session remains.
RenamedSessionLeft ==
    /\ Handled /\ Last.ev = "disconnect"
    /\ Occurrences(Earlier, "update-username", Last.id) > 0
    /\ Cardinality(Open) >= 1
    /\ \A id \in Open : LastData(inbox[id], "user-left").username = <<"a">>

(***************************************************************************)
(* C6: an update-username whose argument is empty or blank leaves the      *)
(* session's registry username as it was before the event.                 *)
(***************************************************************************)
BlankUpdate(x) ==
    /\ Len(history') = Len(history) + 1
    /\ history'[Len(history')].ev = "update-username"
    /\ history'[Len(history')].id = x
    /\ history'[Len(history')].arg # Undefined
    /\ Trim(history'[Len(history')].arg) = <<>>

BlankUsernameKeepsName ==
    [][\A x \in Ids :
         (BlankUpdate(x) /\ Has(activeUsers, x)) =>
            /\ Has(activeUsers', x)
            /\ Get(activeUsers', x).username = Get(activeUsers, x).username]_vars

(***************************************************************************)
(* C7: a second disconnect of the same session id leaves the registry      *)
(* unchanged and sends no user-left; as stated, it also sends no other     *)
(* outbound event.                                                         *)
(***************************************************************************)
RepeatedDisconnect ==
    /\ Handled
    /\ Last.ev = "disconnect"
    /\ Occurrences(Earlier, "disconnect", Last.id) > 0

\* The claim as stated: nothing at all goes out on the second disconnect.
SecondDisconnectSilent ==
    RepeatedDisconnect => \A i \in 1..Len(sent) : sent[i].to = {}

RepeatedDisconnectStep(x) ==
    /\ Len(history') = Len(history) + 1
    /\ history'[Len(history')].ev = "disconnect"
    /\ history'[Len(history')].id = x
    /\ Occurrences(history, "disconnect", x) > 0

\* As amended: the registry is unchanged and no user-left is sent; the current
\* user count and roster are broadcast again to the connected sessions.
SecondDisconnectKeepsRegistry ==
    [][\A x \in Ids :
         RepeatedDisconnectStep(x) =>
            /\ activeUsers' = activeUsers
            /\ userLeft' = userLeft
            /\ Count(sent', "user-left") = 0
            /\ Len(sent') = 2
            /\ sent'[1] = [event |-> "user-count-update", data |-> Len(activeUsers),
                           to |-> Connected(conn)]
            /\ sent'[2] = [event |-> "active-users-update", data |-> activeUsers,
                           to |-> Connected(conn)]]_vars

\* A session was disconnected twice while another session stays connected.
DisconnectedTwice ==
    /\ RepeatedDisconnect
    /\ Cardinality(Open) >= 1
    /\ \A id \in Open : LastReceived(id).event = "active-users-update"

(***************************************************************************)
(* C8: once X's disconnect has been handled, no later send-message,        *)
(* typing, stop-typing, update-username or ping of X is processed: none    *)
(* changes the registry or causes an outbound event to any session.        *)
(***************************************************************************)
ClientEvents == {"send-message", "typing", "stop-typing", "update-username", "ping"}

DisconnectedIsTerminal ==
    (Handled /\ ~crashed /\ Last.ev \in ClientEvents
       /\ Occurrences(Earlier, "disconnect", Last.id) > 0) =>
        \A i \in 1..Len(sent) : sent[i].to = {}

(***************************************************************************)
(* C9: every session in the registry has a non-empty username: 'User_'     *)
(* followed by the first 6 characters of the id from connect on, and a     *)
(* non-empty string after any update-username with a string argument.      *)
(***************************************************************************)
UserPrefix(id) == <<"U", "s", "e", "r", "_", id[1], id[2], id[3], id[4], id[5], id[6]>>

UsernameNeverEmpty ==
    \A i \in 1..Len(activeUsers) :
        /\ activeUsers[i].username # Undefined
        /\ Len(activeUsers[i].username) > 0
        /\ Trim(activeUsers[i].username) # <<>>
        /\ Occurrences(history, "update-username", activeUsers[i].id) = 0
              => activeUsers[i].username = UserPrefix(activeUsers[i].id)

\* A registered session has just sent a blank update-username.
BlankUpdateHandled ==
    /\ Handled /\ ~crashed
    /\ Last.ev = "update-username"
    /\ Last.arg = <<Space>>
    /\ Has(activeUsers, Last.id)
    /\ Occurrences(Earlier, "update-username", Last.id) > 0

(***************************************************************************)
(* C10: from an empty registry, A connects and receives welcome with       *)
(* usersCount 1; B connects, A receives user-joined with B's username and  *)
(* both receive user-count-update 2; A sends {message: "hi"} and both      *)
(* receive new-message "hi" with A's username; B disconnects, A receives   *)
(* user-left with B's username and user-count-update 1, and B receives     *)
(* nothing further.                                                        *)
(***************************************************************************)
\* What the scenario observes of a delivered event.
Seen(e) ==
    CASE e.event = "welcome" -> <<"welcome", e.data.usersCount>>
      [] e.event = "user-joined" -> <<"user-joined", e.data.username>>
      [] e.event = "user-count-update" -> <<"user-count-update", e.data>>
      [] e.event = "active-users-update" -> <<"active-users-update", RosterIds(e.data)>>
      [] e.event = "new-message" -> <<"new-message", e.data.message, e.data.username>>
      [] e.event = "user-left" -> <<"user-left", e.data.username>>
      [] OTHER -> <<e.event>>

SeenBy(id) == [i \in 1..Len(inbox[id]) |-> Seen(inbox[id][i])]

NameA == <<"U", "s", "e", "r", "_", "A", "x", "x", "x", "x", "x">>
NameB == <<"U", "s", "e", "r", "_", "B", "x", "x", "x", "x", "x">>

ScenarioPlayed ==
    /\ Len(history) = 4
    /\ history[1].ev = "connect" /\ history[1].id = A
    /\ history[2].ev = "connect" /\ history[2].id = B
    /\ history[3] = Entry("send-message", A, [message |-> Hi, username |-> Undefined])
    /\ history[4].ev = "disconnect" /\ history[4].id = B

EndToEndScenario ==
    ScenarioPlayed =>
        /\ SeenBy(A) = << <<"welcome", 1>>,
                          <<"user-count-update", 1>>,
                          <<"active-users-update", {A}>>,
                          <<"user-joined", NameB>>,
                          <<"user-count-update", 2>>,
                          <<"active-users-update", {A, B}>>,
                          <<"new-message", Hi, NameA>>,
                          <<"user-left", NameB>>,
                          <<"user-count-update", 1>>,
                          <<"active-users-update", {A}>> >>
        /\ SeenBy(B) = << <<"welcome", 2>>,
                          <<"user-count-update", 2>>,
                          <<"active-users-update", {A, B}>>,
                          <<"new-message", Hi, NameA>> >>

\* The scenario has run to its end.
ScenarioCompleted ==
    /\ ScenarioPlayed
    /\ conn[A] = "open" /\ conn[B] = "closed"
    /\ Len(inbox[A]) = 10

(***************************************************************************)
(* C11: on connect of X exactly one welcome is sent, to X only; its        *)
(* usersCount is the registry size after X's insertion (the number of open *)
(* connections, X included) and its id and username are X's registry id    *)
(* and default username.                                                   *)
(***************************************************************************)
WelcomeUnicast ==
    /\ \A y \in Ids : \A i \in 1..Len(inbox[y]) :
          inbox[y][i].event = "welcome" => inbox[y][i].data.id = y
    /\ (Handled /\ Last.ev = "connect") =>
          /\ Count(sent, "welcome") = 1
          /\ sent[1].event = "welcome"
          /\ sent[1].to = {Last.id}
          /\ sent[1].data.usersCount = Len(activeUsers)
          /\ sent[1].data.usersCount = Cardinality(Open)
          /\ sent[1].data.id = Get(activeUsers, Last.id).id
          /\ sent[1].data.id = Last.id
          /\ sent[1].data.username = Get(activeUsers, Last.id).username
          /\ sent[1].data.username = UserPrefix(Last.id)
          /\ inbox[Last.id][1].event = "welcome"
          /\ inbox[Last.id][1].data = sent[1].data

\* A third session has just connected and been welcomed.
ThirdSessionWelcomed ==
    /\ Handled /\ Last.ev = "connect"
    /\ Cardinality(Open) = 3
    /\ inbox[Last.id][1].data.usersCount = 3

(***************************************************************************)
(* C12: on connect of X the user-joined event carrying X's id and username *)
(* is delivered to every session that was already connected and never to X *)
(* itself.                                                                 *)
(***************************************************************************)
UserJoinedToOthers ==
    /\ \A y \in Ids : \A i \in 1..Len(inbox[y]) :
          inbox[y][i].event = "user-joined" => inbox[y][i].data.id # y
    /\ (Handled /\ Last.ev = "connect") =>
          /\ Count(sent, "user-joined") = 1
          /\ sent[2].event = "user-joined"
          /\ sent[2].data.id = Last.id
          /\ sent[2].data.username = Get(activeUsers, Last.id).username
          /\ sent[2].to = Open \ {Last.id}
          /\ \A y \in Open \ {Last.id} :
                \E i \in 1..Len(inbox[y]) :
                    /\ inbox[y][i].event = "user-joined"
                    /\ inbox[y][i].data = sent[2].data

\* A session has just joined two sessions that were connected before it.
JoinedTwoOthers ==
    /\ Handled /\ Last.ev = "connect"
    /\ Cardinality(Open \ {Last.id}) = 2
    /\ \A y \in Open \ {Last.id} : HasEvent(inbox[y], "user-joined")

(***************************************************************************)
(* C13: an update-username of session X produces a username-changed        *)
(* broadcast to all sessions whose oldUsername is X's registry username    *)
(* just before the event and whose newUsername is X's registry username    *)
(* just after it, followed by an active-users-update to all sessions and a *)
(* username-updated acknowledgment, to X only, with that same new name.    *)
(***************************************************************************)
\* This step handles event ev of socket x.
Handles(ev, x) ==
    /\ Len(history') = Len(history) + 1
    /\ history'[Len(history')].ev = ev
    /\ history'[Len(history')].id = x

UsernameChangeAnnounced ==
    [][\A x \in Ids :
         (Handles("update-username", x) /\ ~crashed' /\ Has(activeUsers, x)) =>
            /\ Len(sent') = 3
            /\ sent'[1].event = "username-changed"
            /\ sent'[1].to = Connected(conn)
            /\ sent'[1].data.id = x
            /\ sent'[1].data.oldUsername = Get(activeUsers, x).username
            /\ sent'[1].data.newUsername = Get(activeUsers', x).username
            /\ sent'[2].event = "active-users-update"
            /\ sent'[2].to = Connected(conn)
            /\ sent'[2].data = activeUsers'
            /\ sent'[3].event = "username-updated"
            /\ sent'[3].to = {x}
            /\ sent'[3].data.success
            /\ sent'[3].data.newUsername = Get(activeUsers', x).username
            /\ Len(inbox'[x]) = Len(inbox[x]) + 3
            /\ \A y \in Connected(conn) \ {x} :
                  /\ Len(inbox'[y]) = Len(inbox[y]) + 2
                  /\ inbox'[y][Len(inbox'[y]) - 1].event = "username-changed"
                  /\ inbox'[y][Len(inbox'[y])].event = "active-users-update"]_vars

\* A renamed session has just been renamed again next to another session.
RenamedTwice ==
    /\ Handled /\ ~crashed /\ Last.ev = "update-username"
    /\ Last.id \in Open
    /\ Cardinality(Open) >= 2
    /\ sent[1].data.oldUsername = <<"a">>
    /\ sent[1].data.newUsername = <<"b", Space, "b">>
    /\ LastReceived(Last.id).event = "username-updated"

(***************************************************************************)
(* C14: every entry of every active-users-update payload consists of       *)
(* exactly the fields id, username, connectedAt and lastSeen, so that a     *)
(* session's remote address reaches no client.                             *)
(***************************************************************************)
RosterFields == {"id", "username", "connectedAt", "lastSeen"}

RosterHidesAddress ==
    \A y \in Ids : \A i \in 1..Len(inbox[y]) :
        inbox[y][i].event = "active-users-update" =>
            \A j \in 1..Len(inbox[y][i].data) : DOMAIN inbox[y][i].data[j] = RosterFields

(***************************************************************************)
(* C15: a session record is changed only by events of its own connection:  *)
(* no event of X changes, adds or removes the record of another session Y, *)
(* and a record's id, remote address and connectedAt never change between  *)
(* its connect and its disconnect.                                         *)
(***************************************************************************)
RecordsOwnedByConnection ==
    [][Len(history') = Len(history) + 1 =>
         /\ \A y \in Ids \ {history'[Len(history')].id} :
               /\ Has(activeUsers', y) <=> Has(activeUsers, y)
               /\ Has(activeUsers, y) => Get(activeUsers', y) = Get(activeUsers, y)
         /\ \A y \in Ids :
               (Has(activeUsers, y) /\ Has(activeUsers', y)) =>
                  /\ Get(activeUsers', y).id = Get(activeUsers, y).id
                  /\ Get(activeUsers', y).ip = Get(activeUsers, y).ip
                  /\ Get(activeUsers', y).connectedAt = Get(activeUsers, y).connectedAt]_vars

\* A session has sent a message and been renamed next to an untouched session.
OneOfTwoRecordsChanged ==
    /\ Handled /\ ~crashed
    /\ Cardinality(Open) = 2
    /\ \E x \in Open :
          /\ Get(activeUsers, x).lastSeen # Get(activeUsers, x).connectedAt
          /\ Get(activeUsers, x).username # DefaultUsername(x)
    /\ \E y \in Open :
          /\ Get(activeUsers, y).lastSeen = Get(activeUsers, y).connectedAt
          /\ Get(activeUsers, y).username = DefaultUsername(y)

(***************************************************************************)
(* C16: a send-message whose payload lacks the message text is rejected or *)
(* ignored: the handler completes without raising, broadcasts no           *)
(* new-message and leaves the registry alone, and the server goes on       *)
(* handling events.                                                        *)
(***************************************************************************)
MessageMissing == Handled /\ Last.ev = "send-message" /\ Last.arg.message = Undefined

MalformedMessageIgnored ==
    MessageMissing => (~crashed /\ Count(sent, "new-message") = 0)

(***************************************************************************)
(* C17: a send-message, typing or update-username handler that runs for an *)
(* id without a registry record is benign: it falls back to the default    *)
(* username, raises nothing, sends no error event and neither creates nor  *)
(* revives a record for that id.                                           *)
(***************************************************************************)
\* The payload of the handled event has the field the handler reads.
Processable(e) ==
    /\ e.ev = "send-message" => e.arg.message # Undefined
    /\ e.ev = "update-username" => e.arg # Undefined

SuppliedOrDefault(name, x) == IF name # Undefined /\ name # <<>> THEN name ELSE UserPrefix(x)

MissingSessionBenign ==
    [][\A x \in Ids :
         LET e == history'[Len(history')] IN
         (/\ Len(history') = Len(history) + 1
          /\ e.id = x
          /\ e.ev \in {"send-message", "typing", "update-username"}
          /\ Processable(e)
          /\ ~Has(activeUsers, x)) =>
            /\ ~crashed'
            /\ activeUsers' = activeUsers
            /\ ~Has(activeUsers', x)
            /\ \A i \in 1..Len(sent') : sent'[i].event # "error"
            /\ e.ev = "send-message" =>
                  sent'[1].data.username = SuppliedOrDefault(e.arg.username, x)
            /\ e.ev = "typing" =>
                  sent'[1].data.username = SuppliedOrDefault(e.arg, x)
            /\ e.ev = "update-username" =>
                  /\ sent'[1].data.oldUsername = UserPrefix(x)
                  /\ x \notin RosterIds(sent'[2].data)]_vars

\* A message of a disconnected session has reached a connected one.
LateMessageDelivered ==
    /\ Handled /\ ~crashed /\ Last.ev = "send-message"
    /\ conn[Last.id] = "closed"
    /\ Last.arg.username = Undefined
    /\ Cardinality(Open) >= 1
    /\ \A y \in Open : LastReceived(y).data.username = DefaultUsername(Last.id)

(***************************************************************************)
(* C18: neither a ping nor a transport error of connection X changes the   *)
(* registry or delivers anything to another session: a ping yields exactly *)
(* one pong, to X only, and an error yields no outbound event.             *)
(***************************************************************************)
PingAndErrorAreLocal ==
    [][\A x \in Ids :
         /\ Handles("ping", x) =>
               /\ activeUsers' = activeUsers
               /\ Len(sent') = 1
               /\ sent'[1].event = "pong"
               /\ sent'[1].to = Connected(conn) \cap {x}
               /\ conn[x] = "open" => Len(inbox'[x]) = Len(inbox[x]) + 1
               /\ conn[x] = "open" => LastReceived(x)'.event = "pong"
               /\ \A y \in Ids \ {x} : inbox'[y] = inbox[y]
         /\ Handles("error", x) =>
               /\ activeUsers' = activeUsers
               /\ sent' = <<>>
               /\ inbox' = inbox]_vars

\* A session has just been answered with a pong while two others are connected.
PongAmongThree ==
    /\ Handled /\ Last.ev = "ping"
    /\ Last.id \in Open
    /\ Cardinality(Open) = 3
    /\ LastReceived(Last.id).event = "pong"

(***************************************************************************)
(* C19: the username of a new-message is the client-supplied username of   *)
(* the send-message payload when a non-empty one is supplied, otherwise    *)
(* the sender's current registry username (the default name when the       *)
(* sender has no record); send-message leaves the registry username alone  *)
(* and its only effect on the registry is the sender's lastSeen.           *)
(***************************************************************************)
MessageUsernamePrecedence ==
    [][\A x \in Ids :
         LET e == history'[Len(history')] IN
         (Handles("send-message", x) /\ ~crashed') =>
            /\ sent'[1].event = "new-message"
            /\ sent'[1].data.username =
                  (IF e.arg.username # Undefined /\ e.arg.username # <<>>
                   THEN e.arg.username
                   ELSE IF Has(activeUsers, x) THEN Get(activeUsers, x).username
                   ELSE UserPrefix(x))
            /\ Len(activeUsers') = Len(activeUsers)
            /\ \A i \in 1..Len(activeUsers) :
                  IF activeUsers[i].id = x
                  THEN /\ activeUsers'[i] =
                            [activeUsers[i] EXCEPT !.lastSeen = activeUsers'[i].lastSeen]
                       /\ activeUsers'[i].username = activeUsers[i].username
                       /\ activeUsers'[i].lastSeen = IsoString(Len(history))
                       /\ activeUsers'[i].lastSeen # activeUsers[i].lastSeen
                  ELSE activeUsers'[i] = activeUsers[i]]_vars

\* A renamed session has sent messages with, and then without, a supplied name.
MessageWithAndWithoutOverride ==
    /\ Handled /\ ~crashed /\ Last.ev = "send-message"
    /\ Last.arg.username = <<>>
    /\ Has(activeUsers, Last.id)
    /\ Get(activeUsers, Last.id).username = <<"b", Space, "b">>
    /\ LastReceived(Last.id).data.username = <<"b", Space, "b">>
    /\ \E i \in 1..Len(inbox[Last.id]) :
          /\ inbox[Last.id][i].event = "new-message"
          /\ inbox[Last.id][i].data.username = <<"a">>

(***************************************************************************)
(* C20: on SIGTERM or SIGINT a server-shutdown event is sent to all the    *)
(* sessions connected at that moment, before the shutdown closes any of    *)
(* them; the connections the shutdown closes then go through the normal    *)
(* disconnect handling, so that the registry ends empty.                   *)
(***************************************************************************)
\* Position of the shutdown signal in the history, 0 when there was none.
ShutdownAt ==
    IF \E i \in 1..Len(history) : history[i].ev = "shutdown"
    THEN CHOOSE i \in 1..Len(history) : history[i].ev = "shutdown"
    ELSE 0

\* The sockets the shutdown has closed so far.
ClosedByShutdown ==
    {x \in Ids : \E i \in 1..Len(history) :
        /\ history[i].ev = "disconnect"
        /\ history[i].id = x
        /\ history[i].arg = ShutdownReason}

ShutdownAnnouncedThenClosed ==
    /\ (phase = "running") = (ShutdownAt = 0)
    /\ phase = "running" => ClosedByShutdown = {}
    /\ (phase = "closing" /\ Last.ev = "shutdown") =>
          /\ ClosedByShutdown = {}
          /\ Len(sent) = 1
          /\ sent[1].event = "server-shutdown"
          /\ sent[1].to = Open
          /\ \A x \in Open : LastReceived(x).event = "server-shutdown"
    /\ phase # "running" =>
          /\ \A i \in 1..Len(history) :
                (history[i].ev = "disconnect" /\ history[i].arg = ShutdownReason)
                    => i > ShutdownAt
          /\ \A x \in Open \cup ClosedByShutdown :
                Count(inbox[x], "server-shutdown") = 1
          /\ \A x \in Ids \ (Open \cup ClosedByShutdown) :
                Count(inbox[x], "server-shutdown") = 0
          /\ \A x \in ClosedByShutdown :
                /\ conn[x] = "closed"
                /\ ~Has(activeUsers, x)
                /\ userLeft[x] = 1
          /\ Keys(activeUsers) = Open
    /\ phase = "closed" =>
          /\ activeUsers = <<>>
          /\ Open = {}

\* A shutdown with two sessions connected has run to its end.
ShutdownClosedTwo ==
    /\ phase = "closed"
    /\ Cardinality(ClosedByShutdown) = 2
    /\ activeUsers = <<>>
    /\ \E x \in Ids \ ClosedByShutdown : conn[x] = "closed"

(***************************************************************************)
(* C21: each inbound event is handled atomically: its registry mutation    *)
(* and all its sends complete before another handler starts; hence two     *)
(* sessions that both receive two new-message, username-changed or         *)
(* user-left broadcasts receive them in the same relative order.           *)
(***************************************************************************)
OrderedBroadcasts == {"new-message", "username-changed", "user-left"}

\* The broadcasts a session has received, in the order it received them.
Broadcasts(box) ==
    SelectSeq(box, LAMBDA e : e.event \in OrderedBroadcasts)

SameBroadcast(e, f) == e.event = f.event /\ e.data = f.data

SameRelativeOrder(bx, by) ==
    \A i, j \in 1..Len(bx) : \A k, l \in 1..Len(by) :
        (i < j /\ SameBroadcast(bx[i], by[k]) /\ SameBroadcast(bx[j], by[l]))
            => k < l

ApiRateLimited ==
    [][\A ip \in RemoteIps :
         (made'[ip] = made[ip] + 1 /\ made[ip] >= RateLimitMax)
             => response' = TooManyRequests]_vars

(***************************************************************************)
(* C23: after a shutdown signal the process eventually exits: with code 0  *)
(* once socket.io and the HTTP server have closed, otherwise through the   *)
(* forced exit 5 seconds later, also when closing socket.io or the HTTP    *)
(* server never completes.                                                 *)
(***************************************************************************)
ShutdownEventuallyExits ==
    (phase = "closing") ~> (phase = "exited" /\ exitCode \in {0, 1})

(***************************************************************************)
(* C24: the client's typing emissions strictly alternate: it emits typing  *)
(* only when isTyping is false and stop-typing only when it is true, so    *)
(* there are never two typing without a stop-typing between them, nor two  *)
(* stop-typing without a typing, and every typing is eventually followed   *)
(* by a stop-typing.                                                       *)
(***************************************************************************)
TypingEmissions ==
    SelectSeq(emitted, LAMBDA e : e \in {"typing", "stop-typing"})

Alternating(seq) ==
    \A i \in 1..Len(seq) :
        seq[i] = (IF i % 2 = 1 THEN "typing" ELSE "stop-typing")

TypingAlternates ==
    /\ [](Alternating(TypingEmissions))
    /\ [](isTyping <=> Len(TypingEmissions) % 2 = 1)
    /\ [][Len(TypingEmissions') > Len(TypingEmissions) =>
             /\ Len(TypingEmissions') = Len(TypingEmissions) + 1
             /\ isTyping' = ~isTyping
             /\ TypingEmissions'[Len(TypingEmissions')] =
                   (IF isTyping THEN "stop-typing" ELSE "typing")]_vars
    /\ (isTyping ~> ~isTyping)

\* Two rounds of typing, one ended by sending the message.
TypedTwice ==
    /\ Len(TypingEmissions) = 4
    /\ \E i \in 1..Len(emitted) : emitted[i] = "send-message"
    /\ ~isTyping

(***************************************************************************)
(* C25: while at least one other connected user has sent typing and not    *)
(* yet stop-typing, the client's typing indicator is shown; it is hidden   *)
(* only when no other user is typing.                                      *)
(***************************************************************************)
IndicatorWhileOthersType ==
    TypingUsers(typingSeen) # {} => indicatorActive

(***************************************************************************)
(* C26: the client's stored message list is bounded: after any sequence    *)
(* of ui.addMessage calls and chat clears, state.messages never holds more *)
(* than 1000 entries, and when the bound is exceeded it is the oldest      *)
(* stored message that is dropped.                                         *)
(***************************************************************************)
MessagesBounded ==
    [][/\ Len(messages') <= MessageLimit
       /\ (Len(messages) = MessageLimit /\ messages'[1] # 1) =>
             /\ Len(messages') = MessageLimit
             /\ messages'[MessageLimit] = messages[MessageLimit] + 1
             /\ \A i \in 1..(MessageLimit - 1) : messages'[i] = messages[i + 1]]_vars

\* The list is full and its two oldest messages have been dropped.
OldestDropped ==
    /\ Len(messages) = MessageLimit
    /\ messages[1] = 3
    /\ messages[MessageLimit] = MessageLimit + 2

(***************************************************************************)
(* C27: the client's own display name tracks the server: whenever the      *)
(* client is connected and has handled all the events sent to it, its      *)
(* state.username equals the username the registry holds for its session,  *)
(* after any sequence of connects, username changes and reconnects.        *)
(***************************************************************************)
ClientInSync ==
    /\ connected
    /\ socketId # Undefined
    /\ userId = socketId
    /\ conn[socketId] = "open"
    /\ handled = Len(inbox[socketId])

ClientNameTracksRegistry ==
    ClientInSync =>
        /\ Has(activeUsers, socketId)
        /\ Get(activeUsers, socketId).username = clientUsername

\* The client had the name "b" in an earlier session and has reconnected.
ReconnectedInSync ==
    /\ ClientInSync
    /\ clientUsername = DefaultUsername(socketId)
    /\ \E i \in 1..Len(history) :
          /\ history[i].ev = "update-username"
          /\ history[i].arg = <<"b">>
          /\ history[i].id # socketId

====
